---- MODULE Spec2Model ----
(***************************************************************************)
(* LDSI: the NCD core (src/src/core/ncd.rs) and the LLM injector           *)
(* (src/src/probe/injector.rs).                                            *)
(*                                                                         *)
(* Texts are byte sequences.  The zstd encoder is an external function of  *)
(* the input bytes (the level is the constant COMPRESSION_LEVEL): for each *)
(* input it either yields a frame, whose length is at least 1 (a zstd      *)
(* frame always carries its header), or reports an error.  A score is an   *)
(* exact fraction <<num, den>> in lowest terms with den > 0; the sizes the *)
(* model uses are small, so the f64 arithmetic of the code is exact up to  *)
(* the one rounding of the division, which maps equal fractions to equal   *)
(* floats and preserves the order against 0.0 and 1.5.                     *)
(***************************************************************************)
EXTENDS Integers, Sequences, FiniteSets, TLC

\* ---------------------------------------------------------------- bounds
MaxLen == 2
MaxCompressed == 3

Alphabet == {"a", "b"}

RECURSIVE SeqsOfLen(_)
SeqsOfLen(n) ==
    IF n = 0 THEN {<<>>}
    ELSE {Append(s, c) : s \in SeqsOfLen(n - 1), c \in Alphabet}

SeqsUpTo(n) == UNION {SeqsOfLen(k) : k \in 0..n}

Texts == SeqsUpTo(MaxLen)

\* Result<Vec<u8>, io::Error> of encode_all, reduced to the frame's length
Ok(n) == [tag |-> "Ok", len |-> n]
Err == [tag |-> "Err", len |-> 0]
Outcomes == {Ok(n) : n \in 1..MaxCompressed} \cup {Err}

\* ------------------------------------------------------------- variables
VARIABLES
    text_a,       \* argument text_a of the call
    text_b,       \* argument text_b of the call
    encode_all,   \* the encoder: <<input bytes, level>> -> Outcome
    ncd_pc,       \* "ready" | "computed" | "scored"
    ncd_result    \* the returned NcdResult, or the returned f64 in .score

ncdVars == <<text_a, text_b, encode_all, ncd_pc, ncd_result>>

\* ------------------------------------------------------------ arithmetic
Abs(x) == IF x < 0 THEN -x ELSE x

RECURSIVE Gcd(_, _)
Gcd(x, y) == IF y = 0 THEN x ELSE Gcd(y, x % y)

\* the value n / d (d > 0) as a fraction in lowest terms
Frac(n, d) ==
    LET g == Gcd(Abs(n), d) IN <<n \div g, d \div g>>

Zero == <<0, 1>>
OneAndHalf == <<3, 2>>

Min(x, y) == IF x <= y THEN x ELSE y
Max(x, y) == IF x >= y THEN x ELSE y

\* ------------------------------------------------------------------- ncd
COMPRESSION_LEVEL == 3

NoResult ==
    [score |-> Zero, size_a |-> 0, size_b |-> 0, size_combined |-> 0,
     raw_size_a |-> 0, raw_size_b |-> 0]

\* mutant: the error arm yields 0 instead of the raw length
compressed_size_ErrZero(enc, input) ==
    IF enc[<<input, COMPRESSION_LEVEL>>].tag = "Ok"
    THEN enc[<<input, COMPRESSION_LEVEL>>].len ELSE 0

\* mutant: the success arm is one byte short
compressed_size_OffByOne(enc, input) ==
    IF enc[<<input, COMPRESSION_LEVEL>>].tag = "Ok"
    THEN enc[<<input, COMPRESSION_LEVEL>>].len - 1 ELSE Len(input)

compressed_size(enc, input) ==
    IF enc[<<input, COMPRESSION_LEVEL>>].tag = "Ok"
    THEN enc[<<input, COMPRESSION_LEVEL>>].len ELSE Len(input)

\* mutant: the two arguments of format! exchanged
Combined_Swapped(a, b) == b \o a

\* format!("{}{}", text_a, text_b)
Combined(a, b) == a \o b

\* mutant: the difference taken on usize, wrapping below zero
RawScore_Wrapping(size_a, size_b, size_combined) ==
    LET min_c == Min(size_a, size_b)
        max_c == Max(size_a, size_b)
        diff == IF size_combined >= min_c THEN size_combined - min_c
                ELSE size_combined - min_c + 65536
    IN  IF max_c > 0 THEN Frac(diff, max_c) ELSE Zero

\* mutant: the degenerate case scored as maximal divergence
RawScore_EmptyIsOne(size_a, size_b, size_combined) ==
    LET min_c == Min(size_a, size_b)
        max_c == Max(size_a, size_b)
    IN  IF max_c > 0 THEN Frac(size_combined - min_c, max_c) ELSE <<1, 1>>

\* lines 74-82: the quotient, or 0.0 when max_c is 0
RawScore(size_a, size_b, size_combined) ==
    LET min_c == Min(size_a, size_b)
        max_c == Max(size_a, size_b)
    IN  IF max_c > 0 THEN Frac(size_combined - min_c, max_c) ELSE Zero

\* mutant: the upper clamp dropped
Clamp_NoUpper(score) == IF score[1] < 0 THEN Zero ELSE score

\* score.max(0.0).min(1.5)
Clamp(score) ==
    LET lo == IF score[1] < 0 THEN Zero ELSE score
    IN  IF 2 * lo[1] > 3 * lo[2] THEN OneAndHalf ELSE lo

compute_ncd(enc, a, b) ==
    LET size_a == compressed_size(enc, a)
        size_b == compressed_size(enc, b)
        size_combined == compressed_size(enc, Combined(a, b))
    IN  [score |-> Clamp(RawScore(size_a, size_b, size_combined)),
         size_a |-> size_a,
         size_b |-> size_b,
         size_combined |-> size_combined,
         raw_size_a |-> Len(a),
         raw_size_b |-> Len(b)]

ncd_score(enc, a, b) == compute_ncd(enc, a, b).score

\* the inputs the encoder is asked about by a call on (a, b) or on (b, a)
Inputs(a, b) == {a, b, a \o b, b \o a}

InitNcd ==
    /\ text_a \in Texts
    /\ text_b \in Texts
    /\ encode_all \in [Inputs(text_a, text_b) \X {COMPRESSION_LEVEL} -> Outcomes]
    /\ ncd_pc = "ready"
    /\ ncd_result = NoResult

CallComputeNcd ==
    /\ ncd_pc = "ready"
    /\ ncd_result' = compute_ncd(encode_all, text_a, text_b)
    /\ ncd_pc' = "computed"
    /\ UNCHANGED <<text_a, text_b, encode_all>>

CallNcdScore ==
    /\ ncd_pc = "ready"
    /\ ncd_result' = [NoResult EXCEPT !.score = ncd_score(encode_all, text_a, text_b)]
    /\ ncd_pc' = "scored"
    /\ UNCHANGED <<text_a, text_b, encode_all>>

\* -------------------------------------------------------------- injector
ApiTypes == {"OpenAI", "Ollama", "Anthropic"}
ApiKeys == {"None", "Some"}
Prompts == {"p1", "p2"}
ResponseTexts == {"r1", "r2"}

VARIABLES
    api_type,          \* config.api_type
    api_key,           \* config.api_key: "None" | "Some"
    prompt_standard,   \* arguments of the running inject_ab
    prompt_fractured,
    inj_pc,            \* "idle" | "send_a" | "body_a" | "send_b" | "body_b" | "done"
    requests,          \* the HTTP requests sent so far by this inject_ab, in order
    in_flight,         \* indices of the requests whose inject has not returned
    http_status,       \* status class of the response being read, or "none"
    served,            \* per request: the text the endpoint answered with, or "none"
    inject_log,        \* what each inject call of this inject_ab returned, in order
    response_a,        \* the local response_a, "none" until bound
    inj_result         \* what inject_ab returned, NoReturn while it runs

injVars ==
    <<api_type, api_key, prompt_standard, prompt_fractured, inj_pc, requests,
      in_flight, http_status, served, inject_log, response_a, inj_result>>

NoReturn == [tag |-> "None"]
OkText(t) == [tag |-> "Ok", text |-> t]
OkPair(a, b) == [tag |-> "Ok", pair |-> <<a, b>>]
Error(kind, msg) == [tag |-> "Err", kind |-> kind, msg |-> msg]

\* the endpoint each protocol posts to
Url(api) ==
    CASE api = "OpenAI" -> "/v1/chat/completions"
      [] api = "Ollama" -> "/api/generate"
      [] api = "Anthropic" -> "/v1/messages"

\* the credential header the request carries
AuthHeader(api, key) ==
    CASE api = "OpenAI" -> IF key = "Some" THEN "Authorization" ELSE "none"
      [] api = "Ollama" -> "none"
      [] api = "Anthropic" -> "x-api-key"

\* mutant: every protocol refuses to send without a key
MissingKey_AnyApi(api, key) == key = "None"

\* api_key.as_ref().ok_or_else(..)? of inject_anthropic; the other two
\* protocols have no such check
MissingKey(api, key) == api = "Anthropic" /\ key = "None"

\* mutant: the second call of inject_ab repeats prompt_standard
SecondPrompt_Repeat(ps, pf) == ps

\* the prompt of the second inject of inject_ab
SecondPrompt(ps, pf) == pf

\* mutant: the tuple built in the other order
ReturnPair_Swapped(a, b) == OkPair(b, a)

\* Ok((response_a, response_b))
ReturnPair(a, b) == OkPair(a, b)

\* mutant: a failed first injection is replaced by an empty response
FirstFailure_Default(e) == OkText("r1")

\* the `?` on the first inject: its error is the return value of inject_ab
FirstFailure(e) == e

\* what the response body can turn out to be
Bodies(api) ==
    IF api = "Ollama" THEN {"malformed"} \cup ResponseTexts
    ELSE {"malformed", "empty_list"} \cup ResponseTexts

\* response.json() followed by the extraction of the text
ParseBody(api, body) ==
    CASE body = "malformed" -> Error("ParseError", "json")
      [] body = "empty_list" -> Error("ParseError", "No response content")
      [] OTHER -> OkText(body)

\* inject(prompt) up to its first await: either it returns at once with an
\* error, or one request is sent
SendOrFail(prompt, stage) ==
    IF MissingKey(api_type, api_key)
    THEN [sent |-> FALSE, ret |-> Error("ApiError", "Anthropic requires API key")]
    ELSE [sent |-> TRUE,
          req |-> [url |-> Url(api_type), prompt |-> prompt,
                   auth |-> AuthHeader(api_type, api_key), stage |-> stage]]

\* inject_ab resumes with r, the value the inject of the given stage returned
Resume(stage, r) ==
    /\ http_status' = "none"
    /\ IF stage = "a"
       THEN IF r.tag = "Err"
            THEN /\ inj_result' = FirstFailure(r)
                 /\ inj_pc' = "done"
                 /\ inject_log' = Append(inject_log, r)
                 /\ in_flight' = {}
                 /\ UNCHANGED <<requests, response_a>>
            ELSE LET s == SendOrFail(SecondPrompt(prompt_standard, prompt_fractured), "b")
                 IN  /\ response_a' = r.text
                     /\ IF s.sent
                        THEN /\ requests' = Append(requests, s.req)
                             /\ in_flight' = {Len(requests) + 1}
                             /\ inject_log' = Append(inject_log, r)
                             /\ inj_pc' = "send_b"
                             /\ inj_result' = NoReturn
                        ELSE /\ inj_result' = s.ret
                             /\ inject_log' = Append(Append(inject_log, r), s.ret)
                             /\ in_flight' = {}
                             /\ inj_pc' = "done"
                             /\ UNCHANGED requests
       ELSE /\ inj_result' = IF r.tag = "Err" THEN r ELSE ReturnPair(response_a, r.text)
            /\ inj_pc' = "done"
            /\ inject_log' = Append(inject_log, r)
            /\ in_flight' = {}
            /\ UNCHANGED <<requests, response_a>>

InitInjector ==
    /\ api_type \in ApiTypes
    /\ api_key \in ApiKeys
    /\ prompt_standard = "p1"
    /\ prompt_fractured = "p1"
    /\ inj_pc = "idle"
    /\ requests = <<>>
    /\ in_flight = {}
    /\ http_status = "none"
    /\ served = <<>>
    /\ inject_log = <<>>
    /\ response_a = "none"
    /\ inj_result = NoReturn

\* Injector::new(LlmConfig::default()), never used
IdleInjector ==
    /\ api_type = "Ollama"
    /\ api_key = "None"
    /\ prompt_standard = "p1"
    /\ prompt_fractured = "p1"
    /\ inj_pc = "idle"
    /\ requests = <<>>
    /\ in_flight = {}
    /\ http_status = "none"
    /\ served = <<>>
    /\ inject_log = <<>>
    /\ response_a = "none"
    /\ inj_result = NoReturn

\* inject_ab is called and runs to the first await
InjectAb(ps, pf) ==
    /\ inj_pc \in {"idle", "done"}
    /\ prompt_standard' = ps
    /\ prompt_fractured' = pf
    /\ response_a' = "none"
    /\ http_status' = "none"
    /\ served' = <<>>
    /\ LET s == SendOrFail(ps, "a")
       IN  IF s.sent
           THEN /\ requests' = <<s.req>>
                /\ in_flight' = {1}
                /\ inject_log' = <<>>
                /\ inj_result' = NoReturn
                /\ inj_pc' = "send_a"
           ELSE /\ requests' = <<>>
                /\ in_flight' = {}
                /\ inject_log' = <<s.ret>>
                /\ inj_result' = FirstFailure(s.ret)
                /\ inj_pc' = "done"
    /\ UNCHANGED <<api_type, api_key>>

\* send().await completes: a transport error (a timeout included) or a status
SendCompletes(outcome) ==
    /\ inj_pc \in {"send_a", "send_b"}
    /\ LET stage == IF inj_pc = "send_a" THEN "a" ELSE "b"
       IN  IF outcome = "error"
           THEN /\ Resume(stage, Error("NetworkError", "send"))
                /\ served' = Append(served, "none")
           ELSE /\ http_status' = outcome
                /\ inj_pc' = IF stage = "a" THEN "body_a" ELSE "body_b"
                /\ UNCHANGED <<requests, in_flight, served, inject_log,
                               response_a, inj_result>>
    /\ UNCHANGED <<api_type, api_key, prompt_standard, prompt_fractured>>

\* response.text().await / response.json().await completes
BodyCompletes(body) ==
    /\ inj_pc \in {"body_a", "body_b"}
    /\ LET stage == IF inj_pc = "body_a" THEN "a" ELSE "b"
           r == IF http_status = "failure"
                THEN Error("ApiError", "status")
                ELSE ParseBody(api_type, body)
       IN  /\ Resume(stage, r)
           /\ served' = Append(served,
                  IF http_status = "success" /\ body \in ResponseTexts
                  THEN body ELSE "none")
    /\ UNCHANGED <<api_type, api_key, prompt_standard, prompt_fractured>>

vars == <<ncdVars, injVars>>

\* the NCD core, the injector idle
Init == InitNcd /\ IdleInjector

Next ==
    \/ CallComputeNcd /\ UNCHANGED injVars
    \/ CallNcdScore /\ UNCHANGED injVars

Spec == Init /\ [][Next]_vars

\* the injector, no text to compare yet
IdleNcd ==
    /\ text_a = <<>>
    /\ text_b = <<>>
    /\ encode_all = [x \in Inputs(<<>>, <<>>) \X {COMPRESSION_LEVEL} |-> Err]
    /\ ncd_pc = "ready"
    /\ ncd_result = NoResult

InitInj == InitInjector /\ IdleNcd

NextInj ==
    \/ \E ps \in Prompts, pf \in Prompts : InjectAb(ps, pf) /\ UNCHANGED ncdVars
    \/ \E o \in {"error", "success", "failure"} : SendCompletes(o) /\ UNCHANGED ncdVars
    \/ \E b \in Bodies(api_type) : BodyCompletes(b) /\ UNCHANGED ncdVars

SpecInjector == InitInj /\ [][NextInj]_vars

\* ------------------------------------------------------ claims on the NCD
Returned == ncd_pc \in {"computed", "scored"}

\* the sizes compressed_size hands to compute_ncd for text_a, text_b and
\* text_a followed by text_b, read off the encoder's outcomes
Encoded(input) == encode_all[<<input, COMPRESSION_LEVEL>>]

SizeOf(input) ==
    IF Encoded(input) = Err THEN Len(input) ELSE Encoded(input).len

AThenB ==
    [i \in 1..(Len(text_a) + Len(text_b)) |->
        IF i <= Len(text_a) THEN text_a[i] ELSE text_b[i - Len(text_a)]]

MinC == IF SizeOf(text_a) <= SizeOf(text_b) THEN SizeOf(text_a) ELSE SizeOf(text_b)
MaxC == IF SizeOf(text_a) <= SizeOf(text_b) THEN SizeOf(text_b) ELSE SizeOf(text_a)

\* C1: whatever the texts and whatever the encoder returns for them, the
\* returned score s satisfies 0.0 <= s <= 1.5 (s = num/den with den > 0).
C1_ScoreBounded ==
    Returned =>
        /\ ncd_result.score[2] > 0
        /\ ncd_result.score[1] >= 0
        /\ 2 * ncd_result.score[1] <= 3 * ncd_result.score[2]

\* the quotient overshoots 1.5 and the call returned
C1_Witness ==
    /\ ncd_pc = "computed"
    /\ 2 * (SizeOf(AThenB) - MinC) > 3 * MaxC
    /\ ncd_result.score = OneAndHalf

\* C3: when the encoder reports an error for an input, the size reported for
\* that input is its raw byte length, and compute_ncd returns a result with
\* every field populated (three sizes, two raw lengths, a score): no error
\* value reaches the caller.
C3_FailSoft ==
    ncd_pc = "computed" =>
        /\ Encoded(text_a) = Err => ncd_result.size_a = Len(text_a)
        /\ Encoded(text_b) = Err => ncd_result.size_b = Len(text_b)
        /\ Encoded(AThenB) = Err =>
               ncd_result.size_combined = Len(text_a) + Len(text_b)
        /\ ncd_result.size_a \in Nat
        /\ ncd_result.size_b \in Nat
        /\ ncd_result.size_combined \in Nat
        /\ ncd_result.raw_size_a = Len(text_a)
        /\ ncd_result.raw_size_b = Len(text_b)
        /\ ncd_result.score \in Int \X (Nat \ {0})

\* the encoder failed on a non-empty text_a and on the concatenation
C3_Witness ==
    /\ ncd_pc = "computed"
    /\ text_a # <<>>
    /\ Encoded(text_a) = Err
    /\ Encoded(text_b) # Err
    /\ Encoded(AThenB) = Err
    /\ ncd_result.size_a = Len(text_a)

\* C4: with maxC > 0 the score is max(0.0, min((sizeCombined - minC) / maxC,
\* 1.5)); when sizeCombined < minC the difference is negative, not a wrapped
\* unsigned value, and the score is 0.0.
C4_Formula ==
    (ncd_pc = "computed" /\ MaxC > 0) =>
        LET d == SizeOf(AThenB) - MinC
            s == ncd_result.score
        IN  /\ d <= 0 => s = Zero
            /\ (d > 0 /\ 2 * d >= 3 * MaxC) => s = OneAndHalf
            /\ (d > 0 /\ 2 * d < 3 * MaxC) =>
                   /\ s[1] * MaxC = s[2] * d
                   /\ s[2] > 0
                   /\ \A g \in 2..MaxC : ~(s[1] % g = 0 /\ s[2] % g = 0)

\* the concatenation compresses below the smaller of the two texts
C4_Witness ==
    /\ ncd_pc = "computed"
    /\ SizeOf(AThenB) < MinC
    /\ ncd_result.score = Zero

\* C5: compute_ncd("", "") returns score 0.0, whether the empty input is
\* given size zero (the fallback, division skipped) or a non-zero size.
C5_EmptyEmpty ==
    (Returned /\ text_a = <<>> /\ text_b = <<>>) => ncd_result.score = Zero

\* both texts empty, the empty input has size zero and max_c is 0
C5_Witness ==
    /\ ncd_pc = "computed"
    /\ text_a = <<>>
    /\ text_b = <<>>
    /\ ncd_result.size_a = 0
    /\ ncd_result.size_b = 0
    /\ ncd_result.score = Zero

\* C7: for non-empty text_a and text_b the three compressed sizes are > 0,
\* on the encoder's success path and on the raw-length fallback.
C7_SizesPositive ==
    (ncd_pc = "computed" /\ text_a # <<>> /\ text_b # <<>>) =>
        /\ ncd_result.size_a > 0
        /\ ncd_result.size_b > 0
        /\ ncd_result.size_combined > 0

\* non-empty texts, one size from the fallback and one from a frame
C7_Witness ==
    /\ ncd_pc = "computed"
    /\ text_a # <<>>
    /\ text_b # <<>>
    /\ Encoded(text_a) = Err
    /\ Encoded(text_b) # Err
    /\ Encoded(AThenB) # Err

\* C8: size_combined is the size of text_a immediately followed by text_b,
\* no separator, in that order; it is not symmetrised, so a call on (B, A)
\* can report another size_combined than the call on (A, B).
C8_OrderSensitive ==
    ncd_pc = "computed" =>
        /\ Len(AThenB) = ncd_result.raw_size_a + ncd_result.raw_size_b
        /\ ncd_result.size_combined = SizeOf(AThenB)

\* a pair of texts whose two orders give different combined sizes
C8_Witness ==
    /\ ncd_pc = "computed"
    /\ compute_ncd(encode_all, text_b, text_a).size_combined
           # ncd_result.size_combined
    /\ compute_ncd(encode_all, text_b, text_a).score # ncd_result.score

\* ------------------------------------------------- claims on the injector
\* C2: the two generations of inject_ab run in strict sequence: at most one
\* request is in flight, the request carrying prompt_fractured is sent only
\* once the inject of prompt_standard has returned a response, and on success
\* the pair is (answer to prompt_standard, answer to prompt_fractured).
C2_Sequential ==
    /\ Cardinality(in_flight) <= 1
    /\ Len(requests) <= 2
    /\ Len(requests) >= 1 => requests[1].prompt = prompt_standard
    /\ Len(requests) = 2 =>
           /\ requests[2].prompt = prompt_fractured
           /\ 1 \notin in_flight
           /\ Len(inject_log) >= 1
           /\ inject_log[1].tag = "Ok"
           /\ Len(served) >= 1
           /\ served[1] # "none"
    /\ (inj_pc = "done" /\ inj_result.tag = "Ok") =>
           /\ Len(served) = 2
           /\ inj_result.pair = <<served[1], served[2]>>

\* a successful A/B injection of two different prompts with two different answers
C2_Witness ==
    /\ inj_pc = "done"
    /\ inj_result.tag = "Ok"
    /\ prompt_standard # prompt_fractured
    /\ Len(served) = 2
    /\ served[1] # served[2]
    /\ inj_result.pair = <<served[1], served[2]>>

\* C9: if the injection of prompt_standard fails, no request for
\* prompt_fractured is sent and inject_ab returns that very error; if the
\* first succeeds and the second fails, inject_ab returns the second error
\* and carries no response text.
C9_ErrorPropagation ==
    /\ (Len(inject_log) >= 1 /\ inject_log[1].tag = "Err") =>
           /\ inj_pc = "done"
           /\ Len(inject_log) = 1
           /\ Len(requests) <= 1
           /\ \A i \in 1..Len(requests) : requests[i].stage = "a"
           /\ inj_result = inject_log[1]
    /\ (Len(inject_log) = 2 /\ inject_log[1].tag = "Ok" /\ inject_log[2].tag = "Err") =>
           /\ inj_pc = "done"
           /\ inj_result = inject_log[2]
           /\ DOMAIN inj_result = {"tag", "kind", "msg"}

\* the first request was answered with a failure status
C9_Witness ==
    /\ inj_pc = "done"
    /\ Len(requests) = 1
    /\ Len(inject_log) = 1
    /\ inject_log[1] = Error("ApiError", "status")
    /\ inj_result = inject_log[1]

\* C10: with api_type Anthropic and no api_key, inject returns an ApiError
\* and sends no HTTP request; with OpenAI or Ollama a missing api_key never
\* keeps the request from being sent.
C10_MissingKey ==
    /\ (api_type = "Anthropic" /\ api_key = "None" /\ inj_pc # "idle") =>
           /\ inj_pc = "done"
           /\ requests = <<>>
           /\ in_flight = {}
           /\ Len(inject_log) = 1
           /\ inject_log[1].tag = "Err"
           /\ inject_log[1].kind = "ApiError"
    /\ (api_type \in {"OpenAI", "Ollama"} /\ api_key = "None" /\ inj_pc # "idle") =>
           /\ Len(requests) >= 1
           /\ requests[1].auth = "none"
           /\ \A i \in 1..Len(inject_log) :
                  inject_log[i] # Error("ApiError", "Anthropic requires API key")

\* Anthropic without a key: inject_ab has returned, nothing was sent
C10_Witness ==
    /\ api_type = "Anthropic"
    /\ api_key = "None"
    /\ inj_pc = "done"
    /\ requests = <<>>
    /\ inj_result = Error("ApiError", "Anthropic requires API key")

====
